---- MODULE Spec2Model ----
(***************************************************************************)
(* Knuth's elevator simulation (TAOCP vol. 1, section 2.2.5) as            *)
(* implemented by cxx14.cpp: the event scheduler (wait_), the world state  *)
(* of ElevatorSimulation, the transitions of UserTask, ElevatorTask,       *)
(* E5Task and E9Task, the decision subroutine and the driver runUntil.     *)
(*                                                                         *)
(* A transition runs to completion, so every action below is one           *)
(* iteration of runUntil's loop: the pop of wait_.front() and the whole    *)
(* resume() call, threaded through a record `s` of the simulation's        *)
(* fields.  A failed assert() aborts the program: it is recorded in err    *)
(* and the driver stops (pc = "abort").                                    *)
(***************************************************************************)
EXTENDS Integers, Sequences, FiniteSets, TLC

(* ----------------------------- bounds -------------------------------- *)
\* The most riders that arrive before the deadline.
MaxUsers == 3
\* The argument of runUntil.
Deadline == 1200

(* ------------------------- program constants ------------------------- *)
durationBeforeRapidDoorClose == 25
durationBeforeInactivity == 300
durationBeforeDoorClose == 76
durationOfDoorOpen == 20
durationOfLeaving == 25
durationOfEntering == 25
delayAfterDoorFlutter == 40
durationOfDoorClose == 20
durationOfUpwardAcceleration == 15
durationOfDownwardAcceleration == 15
durationOfDoorOpenFromDecisionSubroutine == 20
delayBeforeHoming == 20
durationOfUpwardTravel == 51
durationOfUpwardDeceleration == 14
durationOfDownwardTravel == 61
durationOfDownwardDeceleration == 23

\* using Floor = int;  // 0 through 4
Floor == 0..4
\* enum Direction
GoingUp == "GoingUp"
GoingDown == "GoingDown"
Neutral == "Neutral"
Direction == {GoingUp, GoingDown, Neutral}

\* The task objects.  A task is named by its class and, for a UserTask,
\* the order of its construction.
elevatortask_ == <<"E", 0>>
e5task_ == <<"E5", 0>>
e9task_ == <<"E9", 0>>
UserTask(k) == <<"U", k>>
UserIds == 1..(MaxUsers + 1)
UserTasks == {UserTask(k) : k \in UserIds}
Task == {elevatortask_, e5task_, e9task_} \cup UserTasks

\* No transition yet, no schedule_immediately call (history variables).
None == <<>>

VARIABLES
    floor_, d1_, d2_, d3_, state_,      \* ElevatorSimulation's car state
    callup_, calldown_, callcar_,       \* the call flags
    wait_,                              \* the pending sequence
    queue_, elevator_,                  \* floor rosters and in-car roster
    nextinst_, nexttime_,               \* Task::nextinst_, Task::nexttime_
    in_, out_,                          \* UserTask::in_, UserTask::out_
    nUsers,                             \* UserTask objects constructed so far
    data_,                              \* the arrival stream createNewUser() reads
    pc, err,                            \* the driver: "run", "returned", "abort"
    sched_, imm_,                       \* history: order and kind of the pending tasks' schedule calls
    ran_,                               \* history: the transition last run (task, resume point, time)
    handed_, expect_,                   \* history: the schedule_immediately calls of that transition, and of the one before
    clock_, chain_                      \* history: the latest time of a transition run, and the transitions run since it last advanced

vars == <<floor_, d1_, d2_, d3_, state_, callup_, calldown_, callcar_, wait_,
          queue_, elevator_, nextinst_, nexttime_, in_, out_, nUsers, data_, pc, err,
          sched_, imm_, ran_, handed_, expect_, clock_, chain_>>

\* The simulation's fields as one record, so that a transition's
\* statements compose in program order.
Sim ==
    [floor_ |-> floor_, d1_ |-> d1_, d2_ |-> d2_, d3_ |-> d3_, state_ |-> state_,
     callup_ |-> callup_, calldown_ |-> calldown_, callcar_ |-> callcar_,
     wait_ |-> wait_, queue_ |-> queue_, elevator_ |-> elevator_,
     nextinst_ |-> nextinst_, nexttime_ |-> nexttime_, in_ |-> in_, out_ |-> out_,
     nUsers |-> nUsers, err |-> err, sched_ |-> sched_, imm_ |-> imm_,
     handed_ |-> None]

\* assert(cond): the first failed assertion of a transition is kept.
Check(s, cond, name) ==
    IF s.err = "" /\ ~cond THEN [s EXCEPT !.err = name] ELSE s

(* --------------------------- sequences ------------------------------- *)
Range(seq) == {seq[i] : i \in 1..Len(seq)}
Count(seq, v) == Cardinality({i \in 1..Len(seq) : seq[i] = v})
\* std::find: index of the first occurrence, 0 for end().
Find(seq, v) ==
    IF v \in Range(seq)
    THEN CHOOSE i \in 1..Len(seq) : seq[i] = v /\ \A j \in 1..(i - 1) : seq[j] # v
    ELSE 0
RemoveAt(seq, i) == SubSeq(seq, 1, i - 1) \o SubSeq(seq, i + 1, Len(seq))

\* std_erase's effect: the first occurrence of value is erased.
std_erase(ctr, value) ==
    IF Find(ctr, value) # 0 THEN RemoveAt(ctr, Find(ctr, value)) ELSE ctr
\* std_erase's assertion.
std_erase_ok(ctr, value) == Count(ctr, value) <= 1

\* Task::ByNextTime
ByNextTime(s, p, q) == s.nexttime_[p] < s.nexttime_[q]

\* std::is_sorted(wait_, ByNextTime): no element is less than its predecessor.
is_sorted(s, seq) ==
    \A i \in 1..(Len(seq) - 1) : ~ByNextTime(s, seq[i + 1], seq[i])

\* std::stable_sort(wait_, ByNextTime), as an insertion sort that puts
\* each element after the elements that do not compare greater.
RECURSIVE InsertStable(_, _, _)
InsertStable(s, sorted, x) ==
    IF sorted = <<>> THEN <<x>>
    ELSE IF ByNextTime(s, x, Head(sorted))
         THEN <<x>> \o sorted
         ELSE <<Head(sorted)>> \o InsertStable(s, Tail(sorted), x)
RECURSIVE stable_sort(_, _)
stable_sort(s, seq) ==
    IF seq = <<>> THEN <<>>
    ELSE InsertStable(s, stable_sort(s, SubSeq(seq, 1, Len(seq) - 1)), seq[Len(seq)])

(* --------------------------- scheduler ------------------------------- *)
\* History of a schedule call: t's call is now the most recent one.
Stamp(s, t, immediate) ==
    [s EXCEPT !.sched_ = Append(SelectSeq(s.sched_, LAMBDA x : x # t), t),
              !.imm_ = IF immediate THEN s.imm_ \cup {t} ELSE s.imm_ \ {t}]

\* Mutant of schedule: the old entry is not erased.
schedule_NoErase(s, t, step, when) ==
    IF s.err # "" THEN s
    ELSE LET s1 == [s EXCEPT !.nextinst_[t] = step, !.nexttime_[t] = when]
         IN Stamp([s1 EXCEPT !.wait_ = stable_sort(s1, Append(s1.wait_, t))], t, FALSE)

\* Mutant of schedule: the task is inserted before the tasks of equal time.
schedule_PushFront(s, t, step, when) ==
    IF s.err # "" THEN s
    ELSE LET s1 == [s EXCEPT !.nextinst_[t] = step, !.nexttime_[t] = when]
         IN IF ~std_erase_ok(s1.wait_, t) THEN [s1 EXCEPT !.err = "std_erase_wait"]
            ELSE Stamp([s1 EXCEPT !.wait_ =
                           stable_sort(s1, <<t>> \o std_erase(s1.wait_, t))],
                       t, FALSE)

\* Mutant of schedule: the task is appended and wait_ is not sorted.
schedule_Unsorted(s, t, step, when) ==
    IF s.err # "" THEN s
    ELSE LET s1 == [s EXCEPT !.nextinst_[t] = step, !.nexttime_[t] = when]
         IN IF ~std_erase_ok(s1.wait_, t) THEN [s1 EXCEPT !.err = "std_erase_wait"]
            ELSE Stamp([s1 EXCEPT !.wait_ = Append(std_erase(s1.wait_, t), t)],
                       t, FALSE)

\* void schedule(std::shared_ptr<Task> t, int step, Time when)
schedule(s, t, step, when) ==
    IF s.err # "" THEN s
    ELSE LET s1 == [s EXCEPT !.nextinst_[t] = step, !.nexttime_[t] = when]
         IN IF ~std_erase_ok(s1.wait_, t) THEN [s1 EXCEPT !.err = "std_erase_wait"]
            ELSE Stamp([s1 EXCEPT !.wait_ =
                           stable_sort(s1, Append(std_erase(s1.wait_, t), t))],
                       t, FALSE)

\* Mutant of schedule_immediately: the task is inserted as schedule does.
schedule_immediately_Sorted(s, t, step, when) ==
    IF s.err # "" THEN s
    ELSE LET s1 == [s EXCEPT !.nextinst_[t] = step, !.nexttime_[t] = when]
         IN IF ~std_erase_ok(s1.wait_, t) THEN [s1 EXCEPT !.err = "std_erase_wait"]
            ELSE LET s2 == [s1 EXCEPT !.wait_ =
                                          stable_sort(s1, Append(std_erase(s1.wait_, t), t)),
                                      !.handed_ = Append(@, [task |-> t, inst |-> step,
                                                             time |-> when])]
                 IN Stamp(s2, t, TRUE)

\* void schedule_immediately(std::shared_ptr<Task> t, int step, Time when)
schedule_immediately(s, t, step, when) ==
    IF s.err # "" THEN s
    ELSE LET s1 == [s EXCEPT !.nextinst_[t] = step, !.nexttime_[t] = when]
         IN IF ~std_erase_ok(s1.wait_, t) THEN [s1 EXCEPT !.err = "std_erase_wait"]
            ELSE LET s2 == [s1 EXCEPT !.wait_ = <<t>> \o std_erase(s1.wait_, t),
                                      !.handed_ = Append(@, [task |-> t, inst |-> step, time |-> when])]
                 IN Check(Stamp(s2, t, TRUE), is_sorted(s2, s2.wait_),
                          "schedule_immediately_is_sorted")

\* void cancel(std::shared_ptr<Task> t)
cancel(s, t) ==
    IF s.err # "" THEN s
    ELSE IF ~std_erase_ok(s.wait_, t) THEN [s EXCEPT !.err = "std_erase_wait"]
         ELSE [s EXCEPT !.wait_ = std_erase(s.wait_, t),
                        !.sched_ = SelectSeq(s.sched_, LAMBDA x : x # t),
                        !.imm_ = s.imm_ \ {t}]

(* ------------------------ decision subroutine ------------------------ *)
AnyCall(s, j) == s.callup_[j] \/ s.calldown_[j] \/ s.callcar_[j]

\* Mutant of FirstCall: D3's loop keeps the last floor with a call.
FirstCall_Highest(s, fromE6) ==
    LET calls == {j \in Floor : j # s.floor_ /\ AnyCall(s, j)}
    IN IF calls # {} THEN CHOOSE j \in calls : \A k \in calls : j >= k
       ELSE IF fromE6 THEN 2 ELSE -1

\* Mutant of FirstCall: a call from E6 has no home floor to fall back on.
FirstCall_NoHome(s, fromE6) ==
    LET calls == {j \in Floor : j # s.floor_ /\ AnyCall(s, j)}
    IN IF calls # {} THEN CHOOSE j \in calls : \A k \in calls : j <= k
       ELSE -1

\* D3's loop: the first j in 0..4 other than floor_ with a call; else the
\* initial value of jj.
FirstCall(s, fromE6) ==
    LET calls == {j \in Floor : j # s.floor_ /\ AnyCall(s, j)}
    IN IF calls # {} THEN CHOOSE j \in calls : \A k \in calls : j <= k
       ELSE IF fromE6 THEN 2 ELSE -1

\* Mutant of decision: step D1 is missing.
decision_NoD1(s, now, fromE6) ==
    IF s.err # "" THEN s
    ELSE IF s.nextinst_[elevatortask_] = 1 /\ AnyCall(s, 2)
         THEN schedule(s, elevatortask_, 3, now + durationOfDoorOpenFromDecisionSubroutine)
    ELSE LET jj == FirstCall(s, fromE6)
         IN IF jj = -1 THEN s
            ELSE LET s1 == [s EXCEPT !.state_ = IF jj < s.floor_ THEN GoingDown
                                                  ELSE IF jj > s.floor_ THEN GoingUp
                                                  ELSE Neutral]
                 IN IF s1.nextinst_[elevatortask_] = 1 /\ jj # 2
                    THEN schedule(s1, elevatortask_, 6, now + delayBeforeHoming)
                    ELSE s1

\* Mutant of decision: step D5 is missing, a dormant elevator is not woken.
decision_NoD5(s, now, fromE6) ==
    IF s.err # "" THEN s
    ELSE IF s.state_ # Neutral THEN s
    ELSE IF s.nextinst_[elevatortask_] = 1 /\ AnyCall(s, 2)
         THEN schedule(s, elevatortask_, 3, now + durationOfDoorOpenFromDecisionSubroutine)
    ELSE LET jj == FirstCall(s, fromE6)
         IN IF jj = -1 THEN s
            ELSE [s EXCEPT !.state_ = IF jj < s.floor_ THEN GoingDown
                                      ELSE IF jj > s.floor_ THEN GoingUp
                                      ELSE Neutral]

\* void decision(Time now, bool fromE6)
decision(s, now, fromE6) ==
    IF s.err # "" THEN s
    ELSE IF s.state_ # Neutral THEN s
    ELSE IF s.nextinst_[elevatortask_] = 1 /\ AnyCall(s, 2)
         THEN schedule(s, elevatortask_, 3, now + durationOfDoorOpenFromDecisionSubroutine)
    ELSE LET jj == FirstCall(s, fromE6)
         IN IF jj = -1 THEN s
            ELSE LET s1 == [s EXCEPT !.state_ = IF jj < s.floor_ THEN GoingDown
                                                  ELSE IF jj > s.floor_ THEN GoingUp
                                                  ELSE Neutral]
                 IN IF s1.nextinst_[elevatortask_] = 1 /\ jj # 2
                    THEN schedule(s1, elevatortask_, 6, now + delayBeforeHoming)
                    ELSE s1

(* ----------------------------- UserTask ------------------------------ *)
\* Compile-time option: riders decline a car moving the wrong way.
EXERCISE_SIX == FALSE

\* The lambda elevator_is_available of UserTask::resume.
elevator_is_available(s, in, out) ==
    IF EXERCISE_SIX
    THEN s.floor_ = in /\ s.state_ # (IF out < in THEN GoingUp ELSE GoingDown)
    ELSE s.floor_ = in

\* Mutant of U1_body: the rider presses the button wherever the car is.
U1_body_AlwaysSignal(s, me, now, info) ==
    LET s0 == schedule([s EXCEPT !.nUsers = @ + 1], UserTask(s.nUsers + 1), 1,
                       now + info.intertime_)
        s1 == Check(s0, info.in_ # info.out_, "U1_in_ne_out")
        s3 == IF info.in_ < info.out_
              THEN [s1 EXCEPT !.callup_[info.in_] = TRUE]
              ELSE [s1 EXCEPT !.calldown_[info.in_] = TRUE]
        s2 == IF ~s3.d2_ \/ s3.nextinst_[elevatortask_] = 1
              THEN decision(s3, now, FALSE)
              ELSE s3
        s4 == [s2 EXCEPT !.in_[me] = info.in_, !.out_[me] = info.out_,
                         !.queue_[info.in_] = Append(@, me)]
    IN schedule(s4, me, 4, now + info.giveuptime_)

\* Mutant of U1_body: the successor's arrival is not scheduled.
U1_body_NoSuccessor(s, me, now, info) ==
    LET s1 == [s EXCEPT !.nUsers = @ + 1]
        avail == elevator_is_available(s1, info.in_, info.out_)
        s2 == IF avail /\ s1.nextinst_[elevatortask_] = 6
              THEN schedule_immediately(s1, elevatortask_, 3, now)
              ELSE IF avail /\ s1.d3_
              THEN schedule_immediately([s1 EXCEPT !.d3_ = FALSE, !.d1_ = TRUE],
                                        elevatortask_, 4, now)
              ELSE LET s3 == IF info.in_ < info.out_
                             THEN [s1 EXCEPT !.callup_[info.in_] = TRUE]
                             ELSE [s1 EXCEPT !.calldown_[info.in_] = TRUE]
                   IN IF ~s3.d2_ \/ s3.nextinst_[elevatortask_] = 1
                      THEN decision(s3, now, FALSE)
                      ELSE s3
        s4 == [s2 EXCEPT !.in_[me] = info.in_, !.out_[me] = info.out_,
                         !.queue_[info.in_] = Append(@, me)]
    IN schedule(s4, me, 4, now + info.giveuptime_)

\* Mutant of U1_body: the arrival raises its call flag without invoking the
\* decision subroutine.
U1_body_NoDecision(s, me, now, info) ==
    LET s0 == schedule([s EXCEPT !.nUsers = @ + 1], UserTask(s.nUsers + 1), 1,
                       now + info.intertime_)
        avail == elevator_is_available(s0, info.in_, info.out_)
        s2 == IF avail /\ s0.nextinst_[elevatortask_] = 6
              THEN schedule_immediately(s0, elevatortask_, 3, now)
              ELSE IF avail /\ s0.d3_
              THEN schedule_immediately([s0 EXCEPT !.d3_ = FALSE, !.d1_ = TRUE],
                                        elevatortask_, 4, now)
              ELSE LET s3 == IF info.in_ < info.out_
                             THEN [s0 EXCEPT !.callup_[info.in_] = TRUE]
                             ELSE [s0 EXCEPT !.calldown_[info.in_] = TRUE]
                   IN s3
        s4 == [s2 EXCEPT !.in_[me] = info.in_, !.out_[me] = info.out_,
                         !.queue_[info.in_] = Append(@, me)]
    IN schedule(s4, me, 4, now + info.giveuptime_)

\* U1. Enter, prepare for successor.  U2. Signal and wait.  U3. Enter queue.
\* info is createNewUser()'s result.
U1_body(s, me, now, info) ==
    LET s0 == schedule([s EXCEPT !.nUsers = @ + 1], UserTask(s.nUsers + 1), 1,
                       now + info.intertime_)
        s1 == Check(s0, info.in_ # info.out_, "U1_in_ne_out")
        avail == elevator_is_available(s1, info.in_, info.out_)
        s2 == IF avail /\ s1.nextinst_[elevatortask_] = 6
              THEN schedule_immediately(s1, elevatortask_, 3, now)
              ELSE IF avail /\ s1.d3_
              THEN schedule_immediately([s1 EXCEPT !.d3_ = FALSE, !.d1_ = TRUE],
                                        elevatortask_, 4, now)
              ELSE LET s3 == IF info.in_ < info.out_
                             THEN [s1 EXCEPT !.callup_[info.in_] = TRUE]
                             ELSE [s1 EXCEPT !.calldown_[info.in_] = TRUE]
                   IN IF ~s3.d2_ \/ s3.nextinst_[elevatortask_] = 1
                      THEN decision(s3, now, FALSE)
                      ELSE s3
        s4 == [s2 EXCEPT !.in_[me] = info.in_, !.out_[me] = info.out_,
                         !.queue_[info.in_] = Append(@, me)]
    IN schedule(s4, me, 4, now + info.giveuptime_)

\* Mutant of U4_body: the rider who gives up stays in the floor's roster.
U4_body_NoErase(s, me, now) == s

\* U4. Give up.
U4_body(s, me, now) ==
    IF ~elevator_is_available(s, s.in_[me], s.out_[me]) \/ ~s.d1_
    THEN Check([s EXCEPT !.queue_[s.in_[me]] = std_erase(@, me)],
               std_erase_ok(s.queue_[s.in_[me]], me), "std_erase_roster")
    ELSE s

\* Mutant of U5_body: the rider is not erased from the floor's roster.
U5_body_NoErase(s, me, now) ==
    LET s2 == [s EXCEPT !.elevator_ = <<me>> \o @, !.callcar_[s.out_[me]] = TRUE]
    IN IF s2.state_ = Neutral
       THEN schedule([s2 EXCEPT !.state_ = IF s.in_[me] < s.out_[me] THEN GoingUp
                                            ELSE GoingDown],
                     e5task_, 5, now + durationBeforeRapidDoorClose)
       ELSE s2

\* Mutant of U5_body: the rider gets in without pressing a button in the car.
U5_body_NoCarCall(s, me, now) ==
    LET s1 == Check([s EXCEPT !.queue_[s.in_[me]] = std_erase(@, me)],
                    std_erase_ok(s.queue_[s.in_[me]], me), "std_erase_roster")
        s2 == [s1 EXCEPT !.elevator_ = <<me>> \o @]
    IN IF s2.state_ = Neutral
       THEN schedule([s2 EXCEPT !.state_ = IF s.in_[me] < s.out_[me] THEN GoingUp
                                            ELSE GoingDown],
                     e5task_, 5, now + durationBeforeRapidDoorClose)
       ELSE s2

\* U5. Get in.
U5_body(s, me, now) ==
    LET s1 == Check([s EXCEPT !.queue_[s.in_[me]] = std_erase(@, me)],
                    std_erase_ok(s.queue_[s.in_[me]], me), "std_erase_roster")
        s2 == [s1 EXCEPT !.elevator_ = <<me>> \o @, !.callcar_[s.out_[me]] = TRUE]
    IN IF s2.state_ = Neutral
       THEN schedule([s2 EXCEPT !.state_ = IF s.in_[me] < s.out_[me] THEN GoingUp
                                            ELSE GoingDown],
                     e5task_, 5, now + durationBeforeRapidDoorClose)
       ELSE s2

\* Mutant of U6_body: the rider who gets out stays in the in-car roster.
U6_body_NoErase(s, me, now) == s

\* U6. Get out.
U6_body(s, me, now) ==
    Check([s EXCEPT !.elevator_ = std_erase(@, me)],
          std_erase_ok(s.elevator_, me), "std_erase_roster")

\* void UserTask::resume(ElevatorSimulation& sim), after createNewUser().
\* The switch has no default: another resume point does nothing.
UserTask_resume(s, me, now, info) ==
    CASE s.nextinst_[me] = 1 -> U1_body(s, me, now, info)
      [] s.nextinst_[me] = 4 -> U4_body(s, me, now)
      [] s.nextinst_[me] = 5 -> U5_body(s, me, now)
      [] s.nextinst_[me] = 6 -> U6_body(s, me, now)
      [] OTHER -> s

(* --------------------------- ElevatorTask ---------------------------- *)
\* The scan of E2, E71 and E81 over the floors other than floor_.
passenger_wants_up(s) == \E j \in Floor : j > s.floor_ /\ s.callcar_[j]
passenger_wants_down(s) == \E j \in Floor : j < s.floor_ /\ s.callcar_[j]
waiter_wants_up(s) == \E j \in Floor : j > s.floor_ /\ (s.callup_[j] \/ s.calldown_[j])
waiter_wants_down(s) == \E j \in Floor : j < s.floor_ /\ (s.callup_[j] \/ s.calldown_[j])

\* E1. Wait for call.
E1_body(s, me, now) == Check(s, s.floor_ = 2, "E1_floor_2")

\* Mutant of E3_body: the door-close monitor is not scheduled.
E3_body_NoMonitor(s, me, now) ==
    LET s1 == [s EXCEPT !.d1_ = TRUE, !.d2_ = TRUE]
        s2 == schedule(s1, e9task_, 9, now + durationBeforeInactivity)
    IN schedule(s2, me, 4, now + durationOfDoorOpen)

\* E3. Open doors.
E3_body(s, me, now) ==
    LET s1 == [s EXCEPT !.d1_ = TRUE, !.d2_ = TRUE]
        s2 == schedule(s1, e9task_, 9, now + durationBeforeInactivity)
        s3 == schedule(s2, e5task_, 5, now + durationBeforeDoorClose)
    IN schedule(s3, me, 4, now + durationOfDoorOpen)

\* Mutant of E2_body: a car with no call ahead never reverses.
E2_body_NoReverse(s, me, now) ==
    LET s1 == IF s.state_ = GoingUp /\ ~(passenger_wants_up(s) \/ waiter_wants_up(s))
              THEN [s EXCEPT !.state_ = Neutral]
              ELSE IF s.state_ = GoingDown
                      /\ ~(passenger_wants_down(s) \/ waiter_wants_down(s))
              THEN [s EXCEPT !.state_ = Neutral]
              ELSE s
    IN E3_body(s1, me, now)

\* E2. Change of state?  (goto caseE3)
E2_body(s, me, now) ==
    LET s1 == IF s.state_ = GoingUp /\ ~(passenger_wants_up(s) \/ waiter_wants_up(s))
              THEN [s EXCEPT !.state_ = IF passenger_wants_down(s) THEN GoingDown
                                        ELSE Neutral]
              ELSE IF s.state_ = GoingDown
                      /\ ~(passenger_wants_down(s) \/ waiter_wants_down(s))
              THEN [s EXCEPT !.state_ = IF passenger_wants_up(s) THEN GoingUp
                                        ELSE Neutral]
              ELSE s
    IN E3_body(s1, me, now)

\* The predicate of E4's find_if over queue_[floor_].
Eligible(s, p) ==
    IF EXERCISE_SIX
    THEN s.state_ = Neutral \/ ((s.out_[p] > s.floor_) = (s.state_ = GoingUp))
    ELSE TRUE

\* std::find_if: index of the first element satisfying Test, 0 for end().
FindIf(seq, Test(_)) ==
    IF \E i \in 1..Len(seq) : Test(seq[i])
    THEN CHOOSE i \in 1..Len(seq) : Test(seq[i]) /\ \A j \in 1..(i - 1) : ~Test(seq[j])
    ELSE 0

\* Mutant of E4_body: a waiting rider boards before a rider gets out.
E4_body_BoardFirst(s, me, now) ==
    LET s1 == Check(s, s.d1_, "E4_d1")
        leaver == FindIf(s.elevator_, LAMBDA p : s.out_[p] = s.floor_)
        enterer == FindIf(s.queue_[s.floor_], LAMBDA p : Eligible(s, p))
    IN IF enterer # 0
       THEN LET e == s.queue_[s.floor_][enterer]
                s2 == Check(s1, s.nextinst_[e] = 4, "E4_enterer_nextinst_4")
            IN schedule(schedule_immediately(s2, e, 5, now),
                        me, 4, now + durationOfEntering)
       ELSE IF leaver # 0
       THEN schedule(schedule_immediately(s1, s.elevator_[leaver], 6, now),
                     me, 4, now + durationOfLeaving)
       ELSE [s1 EXCEPT !.d1_ = FALSE, !.d3_ = TRUE]

\* Mutant of E4_body: the rider who joined the floor's roster last boards.
E4_body_LastFirst(s, me, now) ==
    LET s1 == Check(s, s.d1_, "E4_d1")
        leaver == FindIf(s.elevator_, LAMBDA p : s.out_[p] = s.floor_)
        enterer == Len(s.queue_[s.floor_])
    IN IF leaver # 0
       THEN schedule(schedule_immediately(s1, s.elevator_[leaver], 6, now),
                     me, 4, now + durationOfLeaving)
       ELSE IF enterer # 0
       THEN LET e == s.queue_[s.floor_][enterer]
                s2 == Check(s1, s.nextinst_[e] = 4, "E4_enterer_nextinst_4")
            IN schedule(schedule_immediately(s2, e, 5, now),
                        me, 4, now + durationOfEntering)
       ELSE [s1 EXCEPT !.d1_ = FALSE, !.d3_ = TRUE]

\* E4. Let people out, in.
E4_body(s, me, now) ==
    LET s1 == Check(s, s.d1_, "E4_d1")
        leaver == FindIf(s.elevator_, LAMBDA p : s.out_[p] = s.floor_)
        enterer == FindIf(s.queue_[s.floor_], LAMBDA p : Eligible(s, p))
    IN IF leaver # 0
       THEN schedule(schedule_immediately(s1, s.elevator_[leaver], 6, now),
                     me, 4, now + durationOfLeaving)
       ELSE IF enterer # 0
       THEN LET e == s.queue_[s.floor_][enterer]
                s2 == Check(s1, s.nextinst_[e] = 4, "E4_enterer_nextinst_4")
            IN schedule(schedule_immediately(s2, e, 5, now),
                        me, 4, now + durationOfEntering)
       ELSE [s1 EXCEPT !.d1_ = FALSE, !.d3_ = TRUE]

\* Mutant of E6_body: the car call of the floor is left set.
E6_body_KeepCarCall(s, me, now) ==
    LET s1 == Check(s, ~s.d1_, "E6_not_d1")
        s2 == [s1 EXCEPT !.callup_[s.floor_] = IF s.state_ # GoingDown THEN FALSE ELSE @,
                         !.calldown_[s.floor_] = IF s.state_ # GoingUp THEN FALSE ELSE @]
        s3 == decision(s2, now, TRUE)
    IN IF s3.state_ = Neutral
       THEN LET s4 == Check(s3, s3.floor_ = 2, "E6_floor_2")
                s5 == Check(s4, Find(s4.wait_, me) = 0, "E6_not_pending")
            IN schedule_immediately(s5, me, 1, now)
       ELSE LET s4 == IF s3.d2_ THEN cancel(s3, e9task_) ELSE s3
            IN IF s4.state_ = GoingUp
               THEN schedule(s4, me, 7, now + durationOfUpwardAcceleration)
               ELSE schedule(s4, me, 8, now + durationOfDownwardAcceleration)

\* E6. Prepare to move.
E6_body(s, me, now) ==
    LET s1 == Check(s, ~s.d1_, "E6_not_d1")
        s2 == [s1 EXCEPT !.callcar_[s.floor_] = FALSE,
                         !.callup_[s.floor_] = IF s.state_ # GoingDown THEN FALSE ELSE @,
                         !.calldown_[s.floor_] = IF s.state_ # GoingUp THEN FALSE ELSE @]
        s3 == decision(s2, now, TRUE)
    IN IF s3.state_ = Neutral
       THEN LET s4 == Check(s3, s3.floor_ = 2, "E6_floor_2")
                s5 == Check(s4, Find(s4.wait_, me) = 0, "E6_not_pending")
            IN schedule_immediately(s5, me, 1, now)
       ELSE LET s4 == IF s3.d2_ THEN cancel(s3, e9task_) ELSE s3
            IN IF s4.state_ = GoingUp
               THEN schedule(s4, me, 7, now + durationOfUpwardAcceleration)
               ELSE schedule(s4, me, 8, now + durationOfDownwardAcceleration)

\* E7. Go up a floor.
E7_body(s, me, now) ==
    LET s1 == Check(s, ~s.d1_, "E7_not_d1")
        s2 == Check(s1, s.floor_ < 4, "E7_floor_lt_4")
    IN schedule([s2 EXCEPT !.floor_ = @ + 1], me, 71, now + durationOfUpwardTravel)

\* Mutant of E71_body: the car stops only for a car call or an up call.
E71_body_NoTurnStop(s, me, now) ==
    IF s.callcar_[s.floor_] \/ s.callup_[s.floor_]
    THEN schedule(s, me, 2, now + durationOfUpwardDeceleration)
    ELSE schedule_immediately(s, me, 7, now)

\* Mutant of E71_body: a car that does not stop repeats the arrival check.
E71_body_Stall(s, me, now) ==
    LET should_stop_here ==
            \/ s.callcar_[s.floor_]
            \/ s.callup_[s.floor_]
            \/ /\ (s.floor_ = 2 \/ s.calldown_[s.floor_])
               /\ ~(passenger_wants_up(s) \/ waiter_wants_up(s))
    IN IF should_stop_here
       THEN schedule(s, me, 2, now + durationOfUpwardDeceleration)
       ELSE schedule_immediately(s, me, 71, now)

\* E7, continued.
E71_body(s, me, now) ==
    LET should_stop_here ==
            \/ s.callcar_[s.floor_]
            \/ s.callup_[s.floor_]
            \/ /\ (s.floor_ = 2 \/ s.calldown_[s.floor_])
               /\ ~(passenger_wants_up(s) \/ waiter_wants_up(s))
    IN IF should_stop_here
       THEN schedule(s, me, 2, now + durationOfUpwardDeceleration)
       ELSE schedule_immediately(s, me, 7, now)

\* E8. Go down a floor.
E8_body(s, me, now) ==
    LET s1 == Check(s, ~s.d1_, "E8_not_d1")
        s2 == Check(s1, s.floor_ > 0, "E8_floor_gt_0")
    IN schedule([s2 EXCEPT !.floor_ = @ - 1], me, 81, now + durationOfDownwardTravel)

\* Mutant of E81_body: a descending car does not stop for a car call.
E81_body_NoCarStop(s, me, now) ==
    LET should_stop_here ==
            \/ s.calldown_[s.floor_]
            \/ /\ (s.floor_ = 2 \/ s.callup_[s.floor_])
               /\ ~(passenger_wants_down(s) \/ waiter_wants_down(s))
    IN IF should_stop_here
       THEN schedule(s, me, 2, now + durationOfDownwardDeceleration)
       ELSE schedule_immediately(s, me, 8, now)

\* E8, continued.
E81_body(s, me, now) ==
    LET should_stop_here ==
            \/ s.callcar_[s.floor_]
            \/ s.calldown_[s.floor_]
            \/ /\ (s.floor_ = 2 \/ s.callup_[s.floor_])
               /\ ~(passenger_wants_down(s) \/ waiter_wants_down(s))
    IN IF should_stop_here
       THEN schedule(s, me, 2, now + durationOfDownwardDeceleration)
       ELSE schedule_immediately(s, me, 8, now)

\* void ElevatorTask::resume(ElevatorSimulation& sim)
ElevatorTask_resume(s, me, now) ==
    LET s0 == Check(s, me = elevatortask_, "E_me")
    IN CASE s.nextinst_[me] = 1 -> E1_body(s0, me, now)
         [] s.nextinst_[me] = 2 -> E2_body(s0, me, now)
         [] s.nextinst_[me] = 3 -> E3_body(s0, me, now)
         [] s.nextinst_[me] = 4 -> E4_body(s0, me, now)
         [] s.nextinst_[me] = 6 -> E6_body(s0, me, now)
         [] s.nextinst_[me] = 7 -> E7_body(s0, me, now)
         [] s.nextinst_[me] = 71 -> E71_body(s0, me, now)
         [] s.nextinst_[me] = 8 -> E8_body(s0, me, now)
         [] s.nextinst_[me] = 81 -> E81_body(s0, me, now)
         [] OTHER -> Check(s0, FALSE, "E_default")

\* Mutant of E5Task_resume: d3_ is left set when the doors close.
E5Task_resume_KeepD3(s, me, now) ==
    LET s0 == Check(Check(s, me = e5task_, "E5_me"), s.nextinst_[me] = 5, "E5_nextinst")
    IN IF s.d1_
       THEN schedule(s0, me, 5, now + delayAfterDoorFlutter)
       ELSE schedule(s0, elevatortask_, 6, now + durationOfDoorClose)

\* Mutant of E5Task_resume: the doors close although people are still
\* getting in or out.
E5Task_resume_IgnoreD1(s, me, now) ==
    LET s0 == Check(Check(s, me = e5task_, "E5_me"), s.nextinst_[me] = 5, "E5_nextinst")
    IN schedule([s0 EXCEPT !.d3_ = FALSE], elevatortask_, 6, now + durationOfDoorClose)

\* void E5Task::resume: E5. Close doors.
E5Task_resume(s, me, now) ==
    LET s0 == Check(Check(s, me = e5task_, "E5_me"), s.nextinst_[me] = 5, "E5_nextinst")
    IN IF s.d1_
       THEN schedule(s0, me, 5, now + delayAfterDoorFlutter)
       ELSE schedule([s0 EXCEPT !.d3_ = FALSE], elevatortask_, 6, now + durationOfDoorClose)

\* void E9Task::resume: E9. Set inaction indicator.
E9Task_resume(s, me, now) ==
    LET s0 == Check(Check(s, me = e9task_, "E9_me"), s.nextinst_[me] = 9, "E9_nextinst")
    IN decision([s0 EXCEPT !.d2_ = FALSE], now, FALSE)

(* ---------------------------- the inputs ----------------------------- *)
\* An arrival so late that the next rider is not seen before the deadline,
\* or a patience so long that the rider never gives up.
Far == Deadline

\* struct NewUserInfo, with in_ and out_ distinct floors.
NewUserInfo(giveups, inters) ==
    {info \in [in_ : Floor, out_ : Floor, giveuptime_ : giveups, intertime_ : inters] :
        info.in_ # info.out_}

\* Two riders on any floors: the second arrives while the car serves the
\* first (at a tie with E3 or E6, while the doors open, at a tie with E4 and
\* E5, while E6 is pending, while the doors are idle-open).
GiveUpChoices == {30, 150, Far}
InterChoices == {20, 30, 65, 70, 240, 250}
TwoRiders ==
    {<<a>> : a \in NewUserInfo(GiveUpChoices, {Far})}
    \cup {<<a, b>> : a \in NewUserInfo(GiveUpChoices, InterChoices),
                     b \in NewUserInfo({30, Far}, {Far})}

\* MaxUsers riders in quick succession around the home floor.
CrowdInfo ==
    {info \in NewUserInfo({Far}, {10, 160}) :
        <<info.in_, info.out_>> \in {<<2, 3>>, <<2, 0>>, <<1, 2>>, <<4, 2>>}}
RECURSIVE Crowd(_)
Crowd(n) ==
    IF n = 1 THEN {<<[a EXCEPT !.intertime_ = Far]>> : a \in CrowdInfo}
    ELSE {<<a>> \o rest : a \in CrowdInfo, rest \in Crowd(n - 1)}

\* A rider who walks away from the home floor before the doors open, and
\* two riders who call from other floors while the doors stand open.
Stragglers ==
    {<<a, b, c>> : a \in {[in_ |-> 2, out_ |-> 3, giveuptime_ |-> 10, intertime_ |-> 30]},
                   b \in {i \in NewUserInfo({Far}, {10, 40}) : i.in_ # 2},
                   c \in {i \in NewUserInfo({Far}, {Far}) : i.in_ # 2}}

\* The same rider who walks away, a rider who calls from another floor while
\* the doors open, and a rider who arrives at the home floor while the doors
\* stand open with nobody in them.
Latecomers ==
    {<<a, b, c>> : a \in {[in_ |-> 2, out_ |-> 3, giveuptime_ |-> 10, intertime_ |-> 30]},
                   b \in {i \in NewUserInfo({Far}, {40}) : i.in_ # 2},
                   c \in {i \in NewUserInfo({Far}, {Far}) : i.in_ = 2}}

\* The rider who walks away, and a rider who arrives after the doors have
\* closed again and the elevator has gone dormant.
Returners ==
    {<<a, b>> : a \in {[in_ |-> 2, out_ |-> 3, giveuptime_ |-> 10, intertime_ |-> 150]},
                b \in NewUserInfo({Far}, {Far})}

\* The arrival streams: what successive createNewUser() calls return.  The
\* last rider of a stream is followed by one who arrives past the deadline.
Streams ==
    TwoRiders \cup Crowd(MaxUsers) \cup Stragglers \cup Latecomers \cup Returners

\* The transitions other than U1 do not call createNewUser().
NoInfo == [in_ |-> 0, out_ |-> 0, giveuptime_ |-> 0, intertime_ |-> 0]

(* ----------------------------- the driver ---------------------------- *)
\* ElevatorSimulation(): the first user enters at time zero.
Init ==
    /\ floor_ = 2 /\ d1_ = FALSE /\ d2_ = FALSE /\ d3_ = FALSE /\ state_ = Neutral
    /\ callup_ = [j \in Floor |-> FALSE]
    /\ calldown_ = [j \in Floor |-> FALSE]
    /\ callcar_ = [j \in Floor |-> FALSE]
    /\ wait_ = <<UserTask(1)>>
    /\ queue_ = [j \in Floor |-> <<>>]
    /\ elevator_ = <<>>
    /\ nextinst_ = [t \in Task |-> 1]
    /\ nexttime_ = [t \in Task |-> IF t = UserTask(1) THEN 0 ELSE -1]
    /\ in_ = [t \in UserTasks |-> -1]
    /\ out_ = [t \in UserTasks |-> -1]
    /\ nUsers = 1
    /\ data_ \in Streams
    /\ pc = "run" /\ err = ""
    /\ sched_ = <<UserTask(1)>> /\ imm_ = {}
    /\ ran_ = None /\ handed_ = None /\ expect_ = None
    /\ clock_ = -1 /\ chain_ = 0

\* Mutant of Front: runUntil returns only past the deadline.
Front_Late(t) ==
    /\ pc = "run"
    /\ wait_ # <<>>
    /\ Head(wait_) = t
    /\ nexttime_[t] <= Deadline

\* Mutant of Front: among the pending tasks of the earliest time, the
\* driver takes any (a sort that is not stable).
Front_AnyOfTies(t) ==
    /\ pc = "run"
    /\ wait_ # <<>>
    /\ t \in Range(wait_)
    /\ nexttime_[t] = nexttime_[Head(wait_)]
    /\ nexttime_[t] < Deadline

\* runUntil's loop reaches wait_.front() = t with t->nexttime_ < deadline.
Front(t) ==
    /\ pc = "run"
    /\ wait_ # <<>>
    /\ Head(wait_) = t
    /\ nexttime_[t] < Deadline

\* wait_.pop_front()
Popped ==
    [Sim EXCEPT !.wait_ = Tail(@),
                !.sched_ = SelectSeq(@, LAMBDA x : x # Head(wait_)),
                !.imm_ = @ \ {Head(wait_)}]

\* The longest run of transitions without an advance of time that the
\* history counts.
ChainCap == 2 * Cardinality(Task) + 1

\* The state after t->resume(*this) returned s, or the abort of a failed assert.
Commit(t, s) ==
    IF s.err # ""
    THEN /\ pc' = "abort"
         /\ err' = s.err
         /\ UNCHANGED <<floor_, d1_, d2_, d3_, state_, callup_, calldown_, callcar_,
                        wait_, queue_, elevator_, nextinst_, nexttime_, in_, out_,
                        nUsers, sched_, imm_, ran_, handed_, expect_, clock_, chain_,
                        data_>>
    ELSE /\ floor_' = s.floor_ /\ d1_' = s.d1_ /\ d2_' = s.d2_ /\ d3_' = s.d3_
         /\ state_' = s.state_
         /\ callup_' = s.callup_ /\ calldown_' = s.calldown_ /\ callcar_' = s.callcar_
         /\ wait_' = s.wait_ /\ queue_' = s.queue_ /\ elevator_' = s.elevator_
         /\ nextinst_' = s.nextinst_ /\ nexttime_' = s.nexttime_
         /\ in_' = s.in_ /\ out_' = s.out_ /\ nUsers' = s.nUsers
         /\ sched_' = s.sched_ /\ imm_' = s.imm_
         /\ ran_' = [task |-> t, inst |-> nextinst_[t], time |-> nexttime_[t]]
         /\ handed_' = s.handed_
         /\ expect_' = handed_
         /\ clock_' = IF nexttime_[t] > clock_ THEN nexttime_[t] ELSE clock_
         /\ chain_' = IF nexttime_[t] > clock_ THEN 1
                      ELSE IF chain_ < ChainCap THEN chain_ + 1 ELSE ChainCap
         /\ UNCHANGED <<pc, err, data_>>

\* t->resume(*this) for the three classes of task, after the pop.
UserResumed(t, info) == UserTask_resume(Popped, t, nexttime_[t], info)
ElevatorResumed == ElevatorTask_resume(Popped, elevatortask_, nexttime_[elevatortask_])

\* One action per resume point: an iteration of runUntil's loop that pops
\* the task and runs that case of its resume().
U1 ==
    \E t \in UserTasks :
        /\ Front(t)
        /\ nextinst_[t] = 1
        /\ nUsers <= Len(data_)
        /\ Commit(t, UserResumed(t, data_[nUsers]))

U4 ==
    \E t \in UserTasks :
        /\ Front(t)
        /\ nextinst_[t] = 4
        /\ Commit(t, UserResumed(t, NoInfo))

U5 ==
    \E t \in UserTasks :
        /\ Front(t)
        /\ nextinst_[t] = 5
        /\ Commit(t, UserResumed(t, NoInfo))

\* case 6, and the resume points the switch does not name.
U6 ==
    \E t \in UserTasks :
        /\ Front(t)
        /\ nextinst_[t] \notin {1, 4, 5}
        /\ Commit(t, UserResumed(t, NoInfo))

\* case 1, and the default case of the switch.
E1 ==
    /\ Front(elevatortask_)
    /\ nextinst_[elevatortask_] \notin {2, 3, 4, 6, 7, 71, 8, 81}
    /\ Commit(elevatortask_, ElevatorResumed)

E2 ==
    /\ Front(elevatortask_)
    /\ nextinst_[elevatortask_] = 2
    /\ Commit(elevatortask_, ElevatorResumed)

E3 ==
    /\ Front(elevatortask_)
    /\ nextinst_[elevatortask_] = 3
    /\ Commit(elevatortask_, ElevatorResumed)

E4 ==
    /\ Front(elevatortask_)
    /\ nextinst_[elevatortask_] = 4
    /\ Commit(elevatortask_, ElevatorResumed)

E6 ==
    /\ Front(elevatortask_)
    /\ nextinst_[elevatortask_] = 6
    /\ Commit(elevatortask_, ElevatorResumed)

E7 ==
    /\ Front(elevatortask_)
    /\ nextinst_[elevatortask_] = 7
    /\ Commit(elevatortask_, ElevatorResumed)

E71 ==
    /\ Front(elevatortask_)
    /\ nextinst_[elevatortask_] = 71
    /\ Commit(elevatortask_, ElevatorResumed)

E8 ==
    /\ Front(elevatortask_)
    /\ nextinst_[elevatortask_] = 8
    /\ Commit(elevatortask_, ElevatorResumed)

E81 ==
    /\ Front(elevatortask_)
    /\ nextinst_[elevatortask_] = 81
    /\ Commit(elevatortask_, ElevatorResumed)

E5 ==
    /\ Front(e5task_)
    /\ Commit(e5task_, E5Task_resume(Popped, e5task_, nexttime_[e5task_]))

E9 ==
    /\ Front(e9task_)
    /\ Commit(e9task_, E9Task_resume(Popped, e9task_, nexttime_[e9task_]))

\* runUntil's exits: assert(!wait_.empty()) fails, or the earliest pending
\* task's time has reached the deadline and runUntil returns.
RunUntilReturn ==
    /\ pc = "run"
    /\ IF wait_ = <<>>
       THEN pc' = "abort" /\ err' = "runUntil_wait_nonempty"
       ELSE nexttime_[Head(wait_)] >= Deadline /\ pc' = "returned" /\ UNCHANGED err
    /\ UNCHANGED <<floor_, d1_, d2_, d3_, state_, callup_, calldown_, callcar_,
                   wait_, queue_, elevator_, nextinst_, nexttime_, in_, out_,
                   nUsers, sched_, imm_, ran_, handed_, expect_, clock_, chain_,
                        data_>>

Next ==
    \/ U1 \/ U4 \/ U5 \/ U6
    \/ E1 \/ E2 \/ E3 \/ E4 \/ E6 \/ E7 \/ E71 \/ E8 \/ E81
    \/ E5 \/ E9
    \/ RunUntilReturn

Spec == Init /\ [][Next]_vars

\* Runs whose last rider arrives early enough for the car to come to
\* rest before the deadline.
LiveStreams == Stragglers \cup {d \in TwoRiders : Len(d) = 1}
LiveInit == Init /\ data_ \in LiveStreams
\* runUntil's loop keeps running until it returns or aborts: weak fairness
\* of Next, with the enabledness of a step written out as pc = "run".
RunUntilLoops == []<>(pc # "run") \/ []<><<Next>>_vars
LiveSpec == LiveInit /\ [][Next]_vars /\ RunUntilLoops

(* ----------------------------- the claims ---------------------------- *)
Pending(t) == t \in Range(wait_)
Ran(t, inst) == ran_ # None /\ ran_.task = t /\ ran_.inst = inst
\* A call flag is set at a floor other than the car's.
OtherCall ==
    \E j \in Floor : j # floor_ /\ (callup_[j] \/ calldown_[j] \/ callcar_[j])

\* C1: the car's floor is always in 0..4: E7 is never pending or run at
\* floor 4 and E8 never at floor 0, so their bounds assertions never fail.
C1_FloorInRange ==
    /\ floor_ \in Floor
    /\ err \notin {"E7_floor_lt_4", "E8_floor_gt_0"}
    /\ (Pending(elevatortask_) /\ nextinst_[elevatortask_] = 7) => floor_ < 4
    /\ (Pending(elevatortask_) /\ nextinst_[elevatortask_] = 8) => floor_ > 0
\* E7 has just taken the car to the top floor.
C1_Witness == Ran(elevatortask_, 7) /\ floor_ = 4

\* C2: d1_ and d3_ are never both true, and E2/E3 (which set d1_ and leave
\* d3_ alone) are never pending while d3_ is true.
C2_DoorFlagsExclusive ==
    /\ ~(d1_ /\ d3_)
    /\ (Pending(elevatortask_) /\ nextinst_[elevatortask_] \in {2, 3}) => ~d3_
\* E3 has just run, entered directly (from U1's kick or from decision).
C2_Witness == Ran(elevatortask_, 3) /\ d1_ /\ ~d3_

\* C3: every task occurs at most once in wait_, and no std_erase on wait_
\* finds two entries: rescheduling a pending task replaces its entry.
C3_AtMostOnePending ==
    /\ \A t \in Task : Count(wait_, t) <= 1
    /\ err # "std_erase_wait"
\* U5 has just rescheduled E5, which was pending since E3, to now + 25.
C3_Witness ==
    /\ ran_ # None /\ ran_.task \in UserTasks /\ ran_.inst = 5
    /\ Pending(e5task_)
    /\ nexttime_[e5task_] = ran_.time + durationBeforeRapidDoorClose

\* C4: whenever runUntil is about to pop, wait_ is not empty (its assertion
\* never fails): the next rider's arrival (U1) is always pending.
C4_PendingNeverEmpty ==
    /\ err # "runUntil_wait_nonempty"
    /\ pc = "run" => wait_ # <<>>
    /\ err = "" => \E t \in UserTasks : Pending(t) /\ nextinst_[t] = 1
\* Only the next arrival is pending: the car is dormant and E5, E9 have fired.
C4_Witness == pc = "run" /\ ran_ # None /\ Len(wait_) = 1

\* C5: each rider is in at most one of the five floor rosters and the
\* in-car roster, and at most once in it.
Occurrences(t) ==
    Count(elevator_, t) + Count(queue_[0], t) + Count(queue_[1], t)
    + Count(queue_[2], t) + Count(queue_[3], t) + Count(queue_[4], t)
C5_OneRoster ==
    /\ \A t \in UserTasks : Occurrences(t) <= 1
    /\ err # "std_erase_roster"
\* One rider has boarded while another waits on a floor.
C5_Witness ==
    /\ elevator_ # <<>>
    /\ Ran(Head(elevator_), 5)
    /\ \E j \in Floor : queue_[j] # <<>>

\* C6 (as stated): whenever the direction is Neutral, no call flag is set
\* at a floor other than the car's.
C6_Original == state_ = Neutral => ~OtherCall
\* C6 (amended): the direction is Neutral with a call flag set at another
\* floor only while the elevator's resume point is Open-doors (3),
\* Transfer-step (4) or Prepare-to-move (6); a Neutral car that is dormant
\* (1) or moving has no call outstanding on another floor.
C6_NeutralOutsideDoorCycle ==
    (state_ = Neutral /\ OtherCall) => nextinst_[elevatortask_] \in {3, 4, 6}
\* The car has gone dormant at E1 after serving a rider.
C6_Witness ==
    /\ Ran(elevatortask_, 1) /\ ran_.time > 0
    /\ state_ = Neutral /\ ~OtherCall /\ d2_

\* C7: two tasks inserted by schedule() that are pending with the same fire
\* time stand in wait_ (and so are run) in the order of their schedule calls.
C7_TiesInScheduleOrder ==
    \A i, j \in 1..Len(wait_) :
        (/\ i < j
         /\ nexttime_[wait_[i]] = nexttime_[wait_[j]]
         /\ wait_[i] \notin imm_ /\ wait_[j] \notin imm_)
        => Find(sched_, wait_[i]) < Find(sched_, wait_[j])
\* The elevator's Transfer-step and the door-close monitor are pending at the
\* same time, the elevator scheduled first.
C7_Witness ==
    /\ Pending(elevatortask_) /\ Pending(e5task_)
    /\ nexttime_[elevatortask_] = nexttime_[e5task_]
    /\ elevatortask_ \notin imm_ /\ e5task_ \notin imm_
    /\ Find(wait_, elevatortask_) < Find(wait_, e5task_)

\* C8: a task handed over by schedule_immediately(t, p, now) is at the head
\* of wait_ when the transition returns, and the next transition run is t
\* at resume point p and time now.
C8_HandoffRunsNext ==
    /\ \A i \in 1..Len(expect_) : ran_ = expect_[i]
    /\ (pc = "run" /\ handed_ # <<>>) =>
           /\ wait_ # <<>>
           /\ \A i \in 1..Len(handed_) :
                  /\ Head(wait_) = handed_[i].task
                  /\ nextinst_[Head(wait_)] = handed_[i].inst
                  /\ nexttime_[Head(wait_)] = handed_[i].time
                  /\ handed_[i].time = ran_.time
\* A rider handed Board has run before the door-close monitor that was
\* scheduled for the same instant earlier.
C8_Witness ==
    /\ expect_ # <<>> /\ ran_ = expect_[1]
    /\ ran_.task \in UserTasks
    /\ Pending(e5task_) /\ e5task_ \notin imm_ /\ nexttime_[e5task_] = ran_.time

\* C9: runUntil runs no transition whose fire time is >= deadline; when it
\* returns, every pending task has fire time >= deadline and wait_ is as it
\* was (nothing is popped by the return).
C9_Inv ==
    /\ ran_ # None => ran_.time < Deadline
    /\ pc = "returned" =>
           /\ wait_ # <<>>
           /\ \A i \in 1..Len(wait_) : nexttime_[wait_[i]] >= Deadline
C9_DeadlineStops ==
    /\ []C9_Inv
    /\ [][(pc = "run" /\ pc' = "returned") => (wait_' = wait_ /\ ran_' = ran_)]_vars
\* runUntil has returned with several tasks left pending.
C9_Witness == pc = "returned" /\ ran_ # None /\ Len(wait_) >= 2

\* C10: runUntil returns after finitely many transitions: the latest time
\* of a transition stays below the deadline, it advances after at most
\* 2 * |Task| transitions, and while runUntil has neither returned nor
\* aborted its loop can always take its next step.
C10_CanStep ==
    \/ wait_ = <<>>
    \/ nexttime_[Head(wait_)] >= Deadline
    \/ Head(wait_) \notin UserTasks
    \/ nextinst_[Head(wait_)] # 1
    \/ nUsers <= Len(data_)
C10_Terminates ==
    /\ chain_ <= 2 * Cardinality(Task)
    /\ clock_ < Deadline
    /\ err = ""
    /\ pc = "run" => C10_CanStep
\* runUntil has returned after all MaxUsers riders arrived and were served.
C10_Witness ==
    /\ pc = "returned" /\ nUsers = MaxUsers + 1
    /\ clock_ > 0 /\ chain_ >= 2

\* The transition that is about to run is task t's resume point inst, and
\* the step runs it.
Runs(t, inst) == Front(t) /\ nextinst_[t] = inst /\ ran_' # ran_
NoCallAnywhere ==
    \A j \in Floor : ~callup_[j] /\ ~calldown_[j] /\ ~callcar_[j]

\* C16: whenever E6 ends with direction Neutral and returns the car to E1
\* the car is at floor 2, and the assertions floor_ == 2 of E6 and of E1
\* never fail: the elevator is only ever dormant at floor 2, and a decision
\* call from E6 at another floor leaves a direction other than Neutral.
C16_IdleOnlyAtHome ==
    /\ err \notin {"E6_floor_2", "E1_floor_2"}
    /\ (nextinst_[elevatortask_] = 1 => floor_ = 2)
    /\ (Ran(elevatortask_, 6) /\ state_ = Neutral
            => floor_ = 2 /\ nextinst_[elevatortask_] = 1 /\ Pending(elevatortask_))
    /\ ((err = "" /\ floor_ # 2) => decision(Sim, clock_, TRUE).state_ # Neutral)
\* E6 found no call after a trip and sent the car, at home, back to E1.
C16_Witness ==
    /\ Ran(elevatortask_, 6) /\ state_ = Neutral /\ nextinst_[elevatortask_] = 1
    /\ floor_ = 2 /\ NoCallAnywhere
    /\ \E p \in UserTasks : nextinst_[p] = 6 /\ ~Pending(p) /\ out_[p] # 2

\* C18: the car never moves with its doors open or closing: E6, E7 and E8
\* only run with d1_ false (their assertions never fail), d1_ and d3_ are
\* both false while the elevator's resume point is 7, 71, 8, 81 or 2, and
\* E5 schedules E6 only when it fires with d1_ false.
C18_Inv ==
    /\ err \notin {"E6_not_d1", "E7_not_d1", "E8_not_d1"}
    /\ (Pending(elevatortask_) /\ nextinst_[elevatortask_] \in {6, 7, 8} => ~d1_)
    /\ (nextinst_[elevatortask_] \in {7, 71, 8, 81, 2} => ~d1_ /\ ~d3_)
C18_NoMoveWithDoorsOpen ==
    /\ []C18_Inv
    /\ [][Runs(e5task_, 5) =>
            IF d1_
            THEN /\ nextinst_'[elevatortask_] = nextinst_[elevatortask_]
                 /\ nexttime_'[elevatortask_] = nexttime_[elevatortask_]
                 /\ nextinst_[elevatortask_] # 6
            ELSE /\ nextinst_'[elevatortask_] = 6
                 /\ nexttime_'[elevatortask_] = nexttime_[e5task_] + durationOfDoorClose
                 /\ ~d1_' /\ ~d3_']_vars
\* The car moves between floors after E5 closed the doors behind a rider.
C18_Witness ==
    /\ nextinst_[elevatortask_] \in {71, 81} /\ Pending(elevatortask_)
    /\ elevator_ # <<>> /\ ~d1_ /\ ~d3_ /\ d2_

\* The arrival about to run calls decision(): the rider finds no car to
\* board at once, and d2_ is false or the elevator is dormant.
ArrivalDecides(t) ==
    /\ Runs(t, 1) /\ nUsers <= Len(data_)
    /\ ~(data_[nUsers].in_ = floor_ /\ (nextinst_[elevatortask_] = 6 \/ d3_))
    /\ (~d2_ \/ nextinst_[elevatortask_] = 1)
ElevatorEntryUnchanged ==
    /\ nextinst_'[elevatortask_] = nextinst_[elevatortask_]
    /\ nexttime_'[elevatortask_] = nexttime_[elevatortask_]
    /\ (elevatortask_ \in Range(wait_')) = (elevatortask_ \in Range(wait_))

\* C17: a decision call while the direction is not Neutral changes nothing
\* (direction, call flags, pending sequence, the elevator's resume point and
\* time).  So the calls that U1, E9 and E6 make with a direction already
\* set leave it as it is, and a second arrival on a floor other than the
\* car's, wanting the other way, does not change what the first one fixed.
C17_Inv ==
    (err = "" /\ state_ # Neutral) =>
        \A fromE6 \in BOOLEAN : decision(Sim, clock_, fromE6) = Sim
C17_DecisionNoOpWhenCommitted ==
    /\ []C17_Inv
    /\ [][/\ \A t \in UserTasks :
                ArrivalDecides(t) /\ state_ # Neutral =>
                    state_' = state_ /\ ElevatorEntryUnchanged
          /\ Runs(e9task_, 9) /\ state_ # Neutral =>
                state_' = state_ /\ ElevatorEntryUnchanged
          /\ Runs(elevatortask_, 6) /\ state_ # Neutral => state_' = state_]_vars
\* Two riders wait on a floor other than the car's and want opposite ways;
\* the second arrived while the car, still at home, was about to set off
\* in the direction the first arrival had fixed.
C17_Witness ==
    \E p, q \in UserTasks :
        /\ p # q /\ in_[p] \in Floor /\ in_[p] = in_[q] /\ in_[p] # floor_ /\ floor_ = 2
        /\ queue_[in_[p]] = <<p, q>>
        /\ (out_[p] > in_[p]) # (out_[q] > in_[q])
        /\ Ran(q, 1)
        /\ Pending(elevatortask_) /\ nextinst_[elevatortask_] = 6
        /\ nexttime_[elevatortask_] >= clock_ /\ ~d1_ /\ ~d2_ /\ ~d3_
        /\ state_ = IF in_[p] > floor_ THEN GoingUp ELSE GoingDown

\* D3 as the claim words it: the lowest-numbered floor other than the
\* car's with a call flag set; else floor 2 for a call from E6; else none.
C19_Target(up, down, car, fromE6) ==
    LET calls == {j \in Floor : j # floor_ /\ (up[j] \/ down[j] \/ car[j])}
    IN IF calls # {} THEN CHOOSE j \in calls : \A k \in calls : j <= k
       ELSE IF fromE6 THEN 2 ELSE -1
C19_Toward(j) ==
    IF j = -1 THEN Neutral
    ELSE IF j < floor_ THEN GoingDown ELSE IF j > floor_ THEN GoingUp ELSE Neutral
\* A decision call made with direction Neutral by a transition that does
\* not itself reschedule the elevator: what it leaves.
C19_Decided(now) ==
    LET j == C19_Target(callup_', calldown_', callcar_', FALSE)
    IN ~(nextinst_[elevatortask_] = 1 /\ (callup_'[2] \/ calldown_'[2] \/ callcar_'[2])) =>
        /\ state_' = C19_Toward(j)
        /\ IF j # -1 /\ nextinst_[elevatortask_] = 1 /\ j # 2
           THEN /\ nextinst_'[elevatortask_] = 6
                /\ nexttime_'[elevatortask_] = now + delayBeforeHoming
                /\ elevatortask_ \in Range(wait_')
           ELSE ElevatorEntryUnchanged

\* C19: a decision call with direction Neutral to which D2 does not apply
\* leaves the direction toward the lowest-numbered floor other than the
\* car's with a call flag; without one, toward floor 2 for a call from E6
\* (Neutral at floor 2) and Neutral with nothing scheduled otherwise; E6 is
\* scheduled at now + delayBeforeHoming iff a target was found, the
\* elevator is dormant and the target is not floor 2.
C19_DecisionTarget ==
    [][/\ \A t \in UserTasks :
             ArrivalDecides(t) /\ state_ = Neutral => C19_Decided(nexttime_[t])
       /\ Runs(e9task_, 9) /\ state_ = Neutral => C19_Decided(nexttime_[e9task_])
       /\ Runs(elevatortask_, 6) /\ state_ = Neutral =>
             state_' = C19_Toward(C19_Target(callup_', calldown_', callcar_', TRUE))]_vars
\* E6 found calls below and above the car and sent it down, to the lowest.
C19_Witness ==
    /\ Ran(elevatortask_, 6) /\ state_ = GoingDown /\ nextinst_[elevatortask_] = 8
    /\ elevator_ = <<>>
    /\ \E j, k \in Floor : /\ j < floor_ /\ k > floor_
                           /\ (callup_[j] \/ calldown_[j]) /\ (callup_[k] \/ calldown_[k])

\* A call flag of any kind, or a car-destination flag, is set on the given
\* side of the car.
CallOnSide(up) ==
    \E j \in Floor : /\ IF up THEN j > floor_ ELSE j < floor_
                     /\ (callcar_[j] \/ callup_[j] \/ calldown_[j])
CarCallOnSide(up) ==
    \E j \in Floor : (IF up THEN j > floor_ ELSE j < floor_) /\ callcar_[j]
Opposite(d) == IF d = GoingUp THEN GoingDown ELSE GoingUp

\* C20 as stated: with no call ahead, E2 reverses the car if any call,
\* car-destination or button, is outstanding on the opposite side.
C20_Original ==
    [][Runs(elevatortask_, 2) /\ state_ # Neutral =>
          state_' = IF CallOnSide(state_ = GoingUp) THEN state_
                    ELSE IF CallOnSide(state_ # GoingUp) THEN Opposite(state_)
                    ELSE Neutral]_vars

\* C20 (amended): E2 always runs with a direction set.  It leaves the
\* direction unchanged if some call (car-destination or button) is
\* outstanding on the side the car is heading; otherwise it sets the
\* opposite direction if a car-destination call is outstanding on the
\* opposite side and Neutral if there is none, button calls on the opposite
\* side notwithstanding; it then continues into E3 in the same transition.
C20_EvaluateDirection ==
    [][Runs(elevatortask_, 2) =>
          /\ state_ # Neutral
          /\ state_' = IF CallOnSide(state_ = GoingUp) THEN state_
                       ELSE IF CarCallOnSide(state_ # GoingUp) THEN Opposite(state_)
                       ELSE Neutral
          /\ d1_' /\ d2_'
          /\ nextinst_'[elevatortask_] = 4
          /\ nexttime_'[elevatortask_] = nexttime_[elevatortask_] + durationOfDoorOpen
          /\ nextinst_'[e5task_] = 5
          /\ nexttime_'[e5task_] = nexttime_[elevatortask_] + durationBeforeDoorClose
          /\ nextinst_'[e9task_] = 9
          /\ nexttime_'[e9task_] = nexttime_[elevatortask_] + durationBeforeInactivity
          /\ {elevatortask_, e5task_, e9task_} \subseteq Range(wait_')]_vars
\* The car came up to the top floor with a rider bound for a lower floor:
\* E2 reversed it and opened the doors.
C20_Witness ==
    /\ Ran(elevatortask_, 2) /\ floor_ = 4 /\ state_ = GoingDown /\ d1_
    /\ nextinst_[elevatortask_] = 4
    /\ \E p \in Range(elevator_) : out_[p] < floor_

InSomeRoster(p) == p \in Range(elevator_) \/ \E j \in Floor : p \in Range(queue_[j])
\* Rider p has arrived, has given up and left: its give-up entry is spent
\* and it is in no roster.
GaveUp(p) == in_[p] \in Floor /\ nextinst_[p] = 4 /\ ~Pending(p) /\ ~InSomeRoster(p)
\* Rider p has got out of the car.
Disembarked(p) == nextinst_[p] = 6 /\ ~Pending(p) /\ ~InSomeRoster(p)
\* The schedule_immediately calls that the step makes for resume point inst.
HandedNow(inst) ==
    IF handed_' = handed_ /\ ran_' = ran_ THEN {}
    ELSE {handed_'[i].task : i \in {k \in 1..Len(handed_') : handed_'[k].inst = inst}}

\* C13: a give-up that fires while the car is not at the rider's floor, or
\* while d1_ is false, removes the rider from its floor's roster, and the
\* rider never boards afterwards: it stays out of every roster and is
\* never handed U5 or scheduled again.
C13_GiveUpIsFinal ==
    /\ [][\A p \in UserTasks :
            Runs(p, 4) /\ (floor_ # in_[p] \/ ~d1_) => GaveUp(p)']_vars
    /\ [][\A p \in UserTasks :
            GaveUp(p) => GaveUp(p)' /\ p \notin HandedNow(5)]_vars
\* The car stands with open doors on the floor of a rider who gave up
\* before it came, and nobody got in.
C13_Witness ==
    \E p \in UserTasks :
        /\ GaveUp(p) /\ floor_ = in_[p] /\ in_[p] # 2
        /\ Ran(elevatortask_, 4) /\ d3_ /\ elevator_ = <<>>

\* C14: a rider's resume point only moves 1 -> 4 -> 5 -> 6.  U5 is only
\* handed to a rider whose resume point is 4 and who is in the roster of
\* the car's floor (E4's assertion never fails), the hand-off removes the
\* pending give-up entry, so U4 only runs for a rider still waiting in
\* its floor's roster, and U6 is only handed to a rider in the in-car
\* roster.  A rider who gave up, or who got out, is never scheduled or
\* run again.
C14_Lifecycle ==
    /\ [](err # "E4_enterer_nextinst_4")
    /\ [][\A p \in UserTasks :
            /\ nextinst_'[p] # nextinst_[p] =>
                  <<nextinst_[p], nextinst_'[p]>> \in {<<1, 4>>, <<4, 5>>, <<5, 6>>}
            /\ p \in HandedNow(5) =>
                  /\ nextinst_[p] = 4 /\ p \in Range(queue_[floor_])
                  /\ Count(wait_', p) = 1 /\ nextinst_'[p] = 5
            /\ p \in HandedNow(6) => nextinst_[p] = 5 /\ p \in Range(elevator_)
            /\ Runs(p, 4) => p \in Range(queue_[in_[p]]) /\ p \notin Range(elevator_)
            /\ Runs(p, 5) => p \in Range(elevator_') /\ ~Pending(p)'
            /\ Runs(p, 6) => Disembarked(p)'
            /\ GaveUp(p) => GaveUp(p)'
            /\ Disembarked(p) => Disembarked(p)']_vars
\* One rider has got out of the car and another has given up and left.
C14_Witness ==
    \E p, q \in UserTasks :
        /\ Disembarked(p) /\ GaveUp(q) /\ Ran(p, 6) /\ in_[q] # out_[p]

\* The one transition the state determines: the task at the head of wait_
\* is resumed, a new arrival reading the next element of the stream.
C15_Successor ==
    LET t == Head(wait_)
        now == nexttime_[t]
    IN IF t \in UserTasks
       THEN UserTask_resume(Popped, t, now,
                            IF nextinst_[t] = 1 THEN data_[nUsers] ELSE NoInfo)
       ELSE IF t = elevatortask_ THEN ElevatorTask_resume(Popped, t, now)
       ELSE IF t = e5task_ THEN E5Task_resume(Popped, t, now)
       ELSE E9Task_resume(Popped, t, now)
\* The event record of a state: time, direction, floor, door flags and the
\* label of the transition last run.
C15_Event ==
    [time |-> clock_, state |-> state_, floor |-> floor_,
     d1 |-> d1_, d2 |-> d2_, d3 |-> d3_, label |-> ran_]

\* C15: for a fixed arrival stream and deadline the simulation is
\* deterministic: a running state has exactly one successor, which the
\* state determines (the head of wait_ is resumed, or runUntil returns and
\* nothing else changes), so the sequence of event records is determined.
C15_Deterministic ==
    [][/\ pc = "run" /\ data_' = data_
       /\ IF nexttime_[Head(wait_)] >= Deadline
          THEN /\ pc' = "returned"
               /\ Sim' = Sim /\ C15_Event' = C15_Event /\ handed_' = handed_
          ELSE /\ pc' = "run"
               /\ Sim' = [C15_Successor EXCEPT !.handed_ = None]
               /\ handed_' = C15_Successor.handed_
               /\ C15_Event' =
                    [time |-> IF nexttime_[Head(wait_)] > clock_
                              THEN nexttime_[Head(wait_)] ELSE clock_,
                     state |-> C15_Successor.state_, floor |-> C15_Successor.floor_,
                     d1 |-> C15_Successor.d1_, d2 |-> C15_Successor.d2_,
                     d3 |-> C15_Successor.d3_,
                     label |-> [task |-> Head(wait_), inst |-> nextinst_[Head(wait_)],
                                time |-> nexttime_[Head(wait_)]]]]_vars
\* Two transitions in a row at one time, and two more tasks pending
\* for that same time: the order of the log depends on how ties resolve.
C15_Witness ==
    /\ pc = "run" /\ Len(wait_) >= 2 /\ chain_ >= 2
    /\ nexttime_[wait_[1]] = clock_ /\ nexttime_[wait_[2]] = clock_

C21_Stops(up) ==
    \/ callcar_[floor_]
    \/ (IF up THEN callup_[floor_] ELSE calldown_[floor_])
    \/ /\ (floor_ = 2 \/ (IF up THEN calldown_[floor_] ELSE callup_[floor_]))
       /\ ~CallOnSide(up)
\* What the arrival check leaves behind: E2 after the deceleration time when
\* it stops, otherwise the next travel step at the head of wait_, same time.
C21_Outcome(up, decel, travel) ==
    IF C21_Stops(up)
    THEN /\ nextinst_'[elevatortask_] = 2
         /\ nexttime_'[elevatortask_] = nexttime_[elevatortask_] + decel
         /\ elevatortask_ \in Range(wait_')
    ELSE /\ nextinst_'[elevatortask_] = travel
         /\ nexttime_'[elevatortask_] = nexttime_[elevatortask_]
         /\ wait_' # <<>> /\ wait_'[1] = elevatortask_
         /\ floor_' = floor_

\* C21: on reaching floor f going up the car stops (E2 after the upward
\* deceleration time) exactly when callcar_[f] or callup_[f] is set, or
\* f = 2 or calldown_[f] holds and no call of any kind is above f; otherwise
\* E7 runs next at the same instant.  Going down is the mirror image.  The
\* car therefore never passes a floor whose car call is set.
C21_ArrivalCheck ==
    [][ /\ Runs(elevatortask_, 71) =>
            C21_Outcome(TRUE, durationOfUpwardDeceleration, 7)
        /\ Runs(elevatortask_, 81) =>
            C21_Outcome(FALSE, durationOfDownwardDeceleration, 8) ]_vars
\* The car has just passed a floor whose down button is lit, because of a
\* call above it.
C21_Witness ==
    /\ Ran(elevatortask_, 71) /\ nextinst_[elevatortask_] = 7
    /\ Pending(elevatortask_) /\ calldown_[floor_] /\ CallOnSide(TRUE)

\* Some rider aboard has the car's floor as destination.
C22_Leaver == \E p \in Range(elevator_) : out_[p] = floor_
\* Some rider waiting at the car's floor may board.
C22_Enterer ==
    \E i \in 1..Len(queue_[floor_]) :
        Eligible([state_ |-> state_, floor_ |-> floor_, out_ |-> out_],
                 queue_[floor_][i])

\* C22: each E4 step hands at most one rider a transition, getting out has
\* priority over boarding, and d1_ is cleared only by an E4 step that finds
\* nobody to let out and nobody to let in; that step sets d3_ and does not
\* reschedule the elevator.
C22_OneTransferPerStep ==
    [][ /\ Runs(elevatortask_, 4) =>
            /\ Len(handed_') <= 1
            /\ Cardinality(HandedNow(5) \cup HandedNow(6)) <= 1
            /\ C22_Leaver => HandedNow(6) # {}
            /\ (~C22_Leaver /\ C22_Enterer) => HandedNow(5) # {}
            /\ (HandedNow(5) # {} \/ HandedNow(6) # {}) =>
                   /\ d1_' /\ ~d3_'
                   /\ elevatortask_ \in Range(wait_')
                   /\ nextinst_'[elevatortask_] = 4
        /\ HandedNow(5) # {} => Runs(elevatortask_, 4) /\ ~C22_Leaver
        /\ HandedNow(6) # {} => Runs(elevatortask_, 4)
        /\ (d1_ /\ ~d1_') =>
               /\ Runs(elevatortask_, 4)
               /\ ~C22_Leaver /\ ~C22_Enterer
               /\ d3_' /\ elevatortask_ \notin Range(wait_') ]_vars
\* E4 has just let a rider out while another rider waits at the floor.
C22_Witness ==
    /\ Ran(elevatortask_, 4) /\ queue_[floor_] # <<>>
    /\ \E i \in 1..Len(handed_) : handed_[i].inst = 6

\* Rider a stands before rider b in roster q.
C23_Before(q, a, b) ==
    \E i, j \in 1..Len(q) : i < j /\ q[i] = a /\ q[j] = b

\* C23: riders waiting at one floor board in the order they joined its
\* roster (EXERCISE_SIX off): a step never reorders two riders of a roster,
\* a rider who joins stands behind all who are there, and U5 is handed to,
\* and run by, the rider at the head of its floor's roster only.
C23_BoardInRosterOrder ==
    [][ /\ \A f \in Floor : \A a, b \in UserTasks :
              (a \in Range(queue_[f]) /\ {a, b} \subseteq Range(queue_'[f])
                   /\ (C23_Before(queue_[f], a, b) \/ b \notin Range(queue_[f])))
                  => C23_Before(queue_'[f], a, b)
        /\ \A t \in HandedNow(5) :
              queue_[floor_] # <<>> /\ queue_[floor_][1] = t
        /\ \A t \in UserTasks :
              Runs(t, 5) => /\ queue_[in_[t]] # <<>> /\ queue_[in_[t]][1] = t
                            /\ t \notin Range(queue_'[in_[t]]) ]_vars
\* E4 has handed U5 to the first of two or more riders waiting at the floor.
C23_Witness ==
    /\ Ran(elevatortask_, 4) /\ Len(queue_[floor_]) >= 2
    /\ \E i \in 1..Len(handed_) :
           handed_[i].inst = 5 /\ handed_[i].task = queue_[floor_][1]

\* The rider whose arrival (U1) runs in this step enters at the car's floor
\* while E6 is the elevator's pending entry / while d3_ is true.
C24_Info == data_[nUsers]
C24_AtCarBeforeE6 ==
    /\ C24_Info.in_ = floor_
    /\ nextinst_[elevatortask_] = 6 /\ Pending(elevatortask_)
C24_AtCarDoorsIdle == C24_Info.in_ = floor_ /\ d3_
\* The elevator runs resume point inst next, at the time of the arrival.
C24_ElevatorNext(inst) ==
    /\ wait_' # <<>> /\ wait_'[1] = elevatortask_
    /\ nextinst_'[elevatortask_] = inst
    /\ nexttime_'[elevatortask_] = ran_'.time
\* The step leaves every button flag and the direction as they were.
C24_NoSignal ==
    /\ callup_' = callup_ /\ calldown_' = calldown_ /\ callcar_' = callcar_
    /\ state_' = state_
\* The step sets the one button flag of the entry floor and no other.
C24_OneSignal ==
    /\ callcar_' = callcar_
    /\ IF C24_Info.out_ > C24_Info.in_
       THEN /\ callup_' = [callup_ EXCEPT ![C24_Info.in_] = TRUE]
            /\ calldown_' = calldown_
       ELSE /\ calldown_' = [calldown_ EXCEPT ![C24_Info.in_] = TRUE]
            /\ callup_' = callup_

\* C24: a rider who arrives at the car's floor while E6 is pending for the
\* elevator, or while d3_ is true, raises no flag and causes no decision:
\* the elevator runs next at the same instant, E3 in the first case and E4
\* with d3_ cleared and d1_ set in the second.  The rider joins the roster
\* and schedules U4 all the same.  Every other arrival sets exactly the
\* button flag of its entry floor, callup_ if out > in and calldown_ if not.
C24_ArrivalAtCar ==
    [][ \A t \in UserTasks :
          (Runs(t, 1) /\ nUsers <= Len(data_)) =>
            /\ IF C24_AtCarBeforeE6
               THEN /\ C24_NoSignal /\ C24_ElevatorNext(3)
                    /\ d1_' = d1_ /\ d3_' = d3_
               ELSE IF C24_AtCarDoorsIdle
               THEN /\ C24_NoSignal /\ C24_ElevatorNext(4)
                    /\ ~d3_' /\ d1_'
               ELSE C24_OneSignal
            /\ nextinst_[elevatortask_] = 6 => Pending(elevatortask_)
            /\ in_'[t] = C24_Info.in_ /\ out_'[t] = C24_Info.out_
            /\ queue_'[C24_Info.in_] = Append(queue_[C24_Info.in_], t)
            /\ t \in Range(wait_') /\ nextinst_'[t] = 4
            /\ nexttime_'[t] = ran_'.time + C24_Info.giveuptime_ ]_vars
\* A rider has just arrived at the car's floor while d3_ was true and E4 is
\* to run next; the direction is still Neutral although a call is outstanding
\* at another floor, which a decision would have answered.
C24_Witness ==
    /\ ran_ # None /\ ran_.task \in UserTasks /\ ran_.inst = 1
    /\ in_[ran_.task] = floor_ /\ d1_ /\ ~d3_
    /\ wait_ # <<>> /\ wait_[1] = elevatortask_
    /\ nextinst_[elevatortask_] = 4 /\ nexttime_[elevatortask_] = ran_.time
    /\ state_ = Neutral /\ OtherCall

\* wait_ is in order of fire time, no pending task is due before the last
\* transition run, and no schedule_immediately call of the last transition
\* was made for a time later than a pending task's.
C25_Inv ==
    /\ \A i, j \in 1..Len(wait_) :
           i < j => nexttime_[wait_[i]] <= nexttime_[wait_[j]]
    /\ err # "schedule_immediately_is_sorted"
    /\ ran_ # None => \A i \in 1..Len(wait_) : ran_.time <= nexttime_[wait_[i]]
    /\ pc = "run" =>
           \A k \in 1..Len(handed_) : \A i \in 1..Len(wait_) :
               handed_[k].time <= nexttime_[wait_[i]]

\* C25: between transitions wait_ is sorted by non-decreasing fire time,
\* the fire times of the transitions run one after another never decrease,
\* and schedule_immediately is only called with a time no later than that of
\* every pending task, so that its is_sorted assertion never fails.
C25_PendingSorted ==
    /\ []C25_Inv
    /\ [][(ran_ # None /\ ran_' # ran_) => ran_'.time >= ran_.time]_vars
\* A task has been handed over by schedule_immediately for the very time at
\* which another task is pending, with a later task behind them.
C25_Witness ==
    /\ pc = "run" /\ handed_ # <<>> /\ Len(wait_) >= 3
    /\ nexttime_[wait_[2]] = handed_[1].time
    /\ nexttime_[wait_[3]] > handed_[1].time

\* C26: whenever d1_ or d3_ is true E5 is pending, and d1_ is true exactly
\* when the elevator is pending at E4, so that E4 only runs with d1_ true
\* (its assertion never fails) and an open door always has a pending event
\* that leads to its closing.
C26_OpenDoorHasCloser ==
    /\ (d1_ \/ d3_) => (Pending(e5task_) /\ nextinst_[e5task_] = 5)
    /\ d1_ <=> (Pending(elevatortask_) /\ nextinst_[elevatortask_] = 4)
    /\ err # "E4_d1"
\* E5 has found the doors busy and has rescheduled itself behind E4.
C26_Witness ==
    /\ Ran(e5task_, 5) /\ d1_ /\ Pending(e5task_)
    /\ Pending(elevatortask_) /\ nextinst_[elevatortask_] = 4
    /\ nexttime_[e5task_] > nexttime_[elevatortask_]

\* The elevator is dormant: its resume point is E1 and it is not pending.
C27_Idle == nextinst_[elevatortask_] = 1 /\ ~Pending(elevatortask_)
C27_Inv ==
    C27_Idle => /\ floor_ = 2 /\ state_ = Neutral
                /\ ~d1_ /\ ~d3_
                /\ elevator_ = <<>>
                /\ NoCallAnywhere

\* C27: whenever the elevator is dormant between transitions, the car is at
\* floor 2 with direction Neutral, d1_ and d3_ false, nobody aboard and none
\* of the fifteen call flags set; and an arrival that raises a flag while the
\* elevator is dormant schedules it in the same transition, at E3 for an
\* arrival at floor 2 and at E6 for one elsewhere.
C27_IdleIsQuiescent ==
    /\ []C27_Inv
    /\ [][ \A t \in UserTasks :
             (/\ Runs(t, 1) /\ C27_Idle
              /\ <<callup_', calldown_'>> # <<callup_, calldown_>>)
             => /\ elevatortask_ \in Range(wait_')
                /\ nextinst_'[elevatortask_] = IF in_'[t] = 2 THEN 3 ELSE 6
                /\ nexttime_'[elevatortask_] =
                       nexttime_[t] + (IF in_'[t] = 2
                                       THEN durationOfDoorOpenFromDecisionSubroutine
                                       ELSE delayBeforeHoming) ]_vars
\* A later rider has arrived at another floor while the elevator was dormant
\* after a door cycle, and the arrival has scheduled E6.
C27_Witness ==
    /\ ran_ # None /\ ran_.task \in UserTasks \ {UserTask(1)} /\ ran_.inst = 1
    /\ in_[ran_.task] # 2 /\ floor_ = 2 /\ d2_
    /\ Pending(elevatortask_) /\ nextinst_[elevatortask_] = 6
    /\ nexttime_[elevatortask_] = ran_.time + delayBeforeHoming
    /\ Len(sched_) >= 2 /\ sched_[Len(sched_) - 1] = elevatortask_

====
